---- MODULE Spec2Model ----
(***************************************************************************)
(* goajax: a JSON-RPC server over HTTP.  The model covers the service      *)
(* registry (Server.register) and the request dispatcher                   *)
(* (Server.ServeHTTP, getParams, sendError).                               *)
(*                                                                         *)
(* Go strings that the code inspects rune by rune (service, type and       *)
(* method names, the "method" field of a request) are sequences of         *)
(* one-rune strings, so that strings.Split and isExported are computed.    *)
(* Texts the code only passes on (error messages, raw ids) are TLA+        *)
(* strings.                                                                *)
(***************************************************************************)
EXTENDS Integers, Sequences, FiniteSets, TLC

(***************************************************************************)
(* Bounds of the model.                                                    *)
(***************************************************************************)
\* longest params array a request carries
MaxParams == 2
\* dispatches are started while fewer than MaxCalls invocations were counted
MaxCalls == 2

Threads == {"t1", "t2"}

(***************************************************************************)
(* Strings.                                                                *)
(***************************************************************************)
Upper == {"A", "B", "E", "G", "R", "S", "T", "X"}

Dot == "."

\* the first index >= i of s that holds the separator, Len(s)+1 when none does
RECURSIVE IndexFrom(_, _)
IndexFrom(s, i) ==
    IF i > Len(s) THEN Len(s) + 1
    ELSE IF s[i] = Dot THEN i
    ELSE IndexFrom(s, i + 1)

\* strings.Split(s, ".", -1): every substring between separators
RECURSIVE Split(_)
Split(s) ==
    LET j == IndexFrom(s, 1) IN
    IF j > Len(s) THEN <<s>>
    ELSE <<SubSeq(s, 1, j - 1)>> \o Split(SubSeq(s, j + 1, Len(s)))

\* isExported: is the first rune upper case (false for the empty string)
isExported(name) == Len(name) > 0 /\ name[1] \in Upper

Digits == <<"0", "1", "2", "3", "4", "5", "6", "7", "8", "9">>

\* strconv.Itoa on the positions a params array can have
Itoa(n) == Digits[n + 1]

\* the Go string of a rune sequence
RECURSIVE Str(_)
Str(s) == IF s = <<>> THEN "" ELSE s[1] \o Str(Tail(s))

(***************************************************************************)
(* reflect types.  kind is the reflect kind, name the type's name (the     *)
(* element's name for a pointer), pkg whether the named type has a         *)
(* non-empty PkgPath (named types declared in a package do, predeclared    *)
(* types and pointer types do not).                                        *)
(***************************************************************************)
Float64Type == [kind |-> "float", name |-> <<"f">>, pkg |-> FALSE]
IntType == [kind |-> "int", name |-> <<"i">>, pkg |-> FALSE]
StringType == [kind |-> "string", name |-> <<"s">>, pkg |-> FALSE]
BoolType == [kind |-> "bool", name |-> <<"b">>, pkg |-> FALSE]
\* *A, A an exported struct { X string "x"; Y int "y" }
PtrA == [kind |-> "ptr", name |-> <<"A">>, pkg |-> TRUE]
\* *b, b an unexported struct of the package
PtrB == [kind |-> "ptr", name |-> <<"b">>, pkg |-> TRUE]
\* os.Error
typeOfOsError == [kind |-> "iface", name |-> <<"E", "r", "r">>, pkg |-> TRUE]

IsPtrType(t) == t.kind = "ptr"

\* pointer type whose element is a package type with an unexported name
UnexportedPtr(t) == IsPtrType(t) /\ t.pkg /\ ~isExported(t.name)

(***************************************************************************)
(* Receivers handed to Register / RegisterName.  A method declaration      *)
(* lists the non-receiver inputs and the outputs.  returns lists what a    *)
(* call of the method can return: res is the JSON encoding of the first    *)
(* value (null for nil), err the os.Error.                                 *)
(***************************************************************************)
\* a nil os.Error
NilError == [nil |-> TRUE, s |-> ""]

\* os.ErrorString(s)
ErrorString(s) == [nil |-> FALSE, s |-> s]

\* a field of a JSON object as written or read: absent, null or a value
Absent == [f |-> "absent", s |-> ""]

JNull == [f |-> "null", s |-> ""]

JText(s) == [f |-> "value", s |-> s]

OkOnly == {[res |-> JText("42"), err |-> NilError]}

AnyReturn == [res : {JNull, JText("42")},
              err : {NilError, ErrorString(""), ErrorString("boom")}]

Decl(n, i, o, r) == [name |-> n, pkg |-> FALSE, in |-> i, out |-> o, returns |-> r]

\* new(TestService): Add is the method of the package's test and example;
\* Get has an int and an object argument and may return nil or an error
TestService ==
    [id |-> "TestService", typeName |-> <<"T", "S">>, ptr |-> TRUE,
     methods |-> <<
        Decl(<<"A", "d", "d">>, <<Float64Type, Float64Type>>, <<Float64Type, typeOfOsError>>, OkOnly),
        Decl(<<"G", "e", "t">>, <<IntType, PtrA>>, <<PtrA, typeOfOsError>>, AnyReturn)>>]

\* a value (not a pointer) of an unexported named type with one method
hidden ==
    [id |-> "hidden", typeName |-> <<"h", "s">>, ptr |-> FALSE,
     methods |-> <<
        Decl(<<"G", "e", "t">>, <<StringType>>, <<PtrA, typeOfOsError>>, AnyReturn)>>]

\* new(hidden): a pointer to the same unexported type
hiddenPtr ==
    [id |-> "hiddenPtr", typeName |-> <<"h", "s">>, ptr |-> TRUE,
     methods |-> <<
        Decl(<<"G", "e", "t">>, <<StringType>>, <<PtrA, typeOfOsError>>, AnyReturn)>>]

\* new(Empty): no method is eligible
Empty ==
    [id |-> "Empty", typeName |-> <<"E">>, ptr |-> TRUE,
     methods |-> <<
        Decl(<<"a", "d", "d">>, <<Float64Type>>, <<Float64Type, typeOfOsError>>, OkOnly),
        Decl(<<"B", "a", "d">>, <<PtrB>>, <<Float64Type, typeOfOsError>>, OkOnly),
        Decl(<<"X">>, <<>>, <<Float64Type>>, OkOnly),
        Decl(<<"R", "e", "t">>, <<>>, <<PtrB, typeOfOsError>>, OkOnly),
        Decl(<<"S", "t", "r">>, <<>>, <<Float64Type, StringType>>, OkOnly)>>]

Receivers == {TestService, hidden, hiddenPtr, Empty}

\* names given to RegisterName
ExplicitNames == {<<"s", "v">>, <<"T", "S">>, <<>>}

(***************************************************************************)
(* State.                                                                  *)
(***************************************************************************)
VARIABLES
    serviceMap,     \* Server.serviceMap: name -> service
    mutex,          \* Server.Mutex: "free" or the thread that holds it
    exited,         \* log.Exit ended the process
    pc,             \* where each thread is
    regArgs,        \* register's arguments (rcvr, name, useName)
    regErr,         \* register's return value, once it returned
    mapBefore,      \* history: the service map when register's body began
    first,          \* history: per name, the receiver it was first bound to
    req,            \* ServeHTTP: the decoded jsonRequest
    serviceMethod,  \* ServeHTTP: strings.Split(req.Method, ".", -1)
    service,        \* ServeHTTP: the result of the serviceMap read
    mtype,          \* ServeHTTP: the name of the method found
    args,           \* ServeHTTP: the decoded arguments
    returnValues,   \* ServeHTTP: what function.Call returned
    w,              \* what the thread wrote to its http.ResponseWriter
    stage,          \* history: how far the thread's dispatch got
    before,         \* history: the call counters when the dispatch began
    invocations,    \* history: the calls of function.Call in the dispatch
    acquired,       \* history: the calls of server.Lock() in the dispatch
    passed,         \* history: per method, the requests that passed routing
                    \* and parameter decoding
    sLocal,         \* register: the service s being built and the loop's place
    numCallsRead    \* ServeHTTP: the numCalls read by mtype.numCalls++

vars == <<serviceMap, mutex, exited, pc, regArgs, regErr, mapBefore, first, req,
          serviceMethod, service, mtype, args, returnValues, w, stage, before,
          invocations, acquired, passed, sLocal, numCallsRead>>

regVars == <<regArgs, regErr, mapBefore, first, sLocal>>

serveVars == <<req, serviceMethod, service, mtype, args, returnValues, w, stage,
               before, invocations, acquired, numCallsRead>>

Free == "free"

None == "none"

(***************************************************************************)
(* Server.register                                                         *)
(***************************************************************************)
\* the method loop keeps a method iff the continue statements are all passed
Eligible(m) ==
    /\ ~m.pkg /\ isExported(m.name)
    /\ \A i \in 1..Len(m.in) : ~UnexportedPtr(m.in[i])
    /\ Len(m.out) = 2
    /\ ~UnexportedPtr(m.out[1])
    /\ m.out[2] = typeOfOsError

\* s.method after the method loop: name -> methodType
MethodTable(rcvr) ==
    LET idx == {i \in 1..Len(rcvr.methods) : Eligible(rcvr.methods[i])}
        names == {rcvr.methods[i].name : i \in idx}
        decl(n) == rcvr.methods[CHOOSE i \in idx : rcvr.methods[i].name = n]
    IN [n \in names |->
          [Mutex |-> Free,
           method |-> decl(n).returns,
           argTypes |-> decl(n).in,
           returnType |-> decl(n).out[1],
           numCalls |-> 0]]

\* reflect.Typeof(rcvr).PkgPath(): empty for a pointer type
TypPkgPath(rcvr) == ~rcvr.ptr

Put(map, key, val) ==
    [k \in DOMAIN map \cup {key} |-> IF k = key THEN val ELSE map[k]]

\* register with a fault: the name is not looked up before the insertion
registerOverwrite(map, rcvr, name, useName) ==
    LET sname == IF useName THEN name ELSE rcvr.typeName
        method == MethodTable(rcvr)
        s == [name |-> sname, rcvr |-> rcvr.id, method |-> method]
    IN  IF sname = <<>> THEN [exit |-> TRUE, err |-> NilError, serviceMap |-> map]
        ELSE IF TypPkgPath(rcvr) /\ ~isExported(sname) /\ ~useName
        THEN [exit |-> FALSE, serviceMap |-> map,
              err |-> ErrorString("rpc Register: type " \o Str(sname) \o " is not exported")]
        ELSE IF DOMAIN method = {}
        THEN [exit |-> FALSE, serviceMap |-> map,
              err |-> ErrorString("rpc Register: type " \o Str(sname)
                        \o " has no exported methods of suitable type")]
        ELSE [exit |-> FALSE, err |-> NilError, serviceMap |-> Put(map, sname, s)]

\* register with a fault: RegisterName's name is ignored
registerTypeName(map, rcvr, name, useName) ==
    LET sname == rcvr.typeName
        method == MethodTable(rcvr)
        s == [name |-> sname, rcvr |-> rcvr.id, method |-> method]
    IN  IF sname \in DOMAIN map
        THEN [exit |-> FALSE, serviceMap |-> map,
              err |-> ErrorString("rpc: service already defined: " \o Str(sname))]
        ELSE IF DOMAIN method = {}
        THEN [exit |-> FALSE, serviceMap |-> map,
              err |-> ErrorString("rpc Register: type " \o Str(sname)
                        \o " has no exported methods of suitable type")]
        ELSE [exit |-> FALSE, err |-> NilError, serviceMap |-> Put(map, sname, s)]

\* register with a fault: a service without methods is not refused
registerEmptyService(map, rcvr, name, useName) ==
    LET sname == IF useName THEN name ELSE rcvr.typeName
        method == MethodTable(rcvr)
        s == [name |-> sname, rcvr |-> rcvr.id, method |-> method]
    IN  IF sname = <<>> THEN [exit |-> TRUE, err |-> NilError, serviceMap |-> map]
        ELSE IF TypPkgPath(rcvr) /\ ~isExported(sname) /\ ~useName
        THEN [exit |-> FALSE, serviceMap |-> map,
              err |-> ErrorString("rpc Register: type " \o Str(sname) \o " is not exported")]
        ELSE IF sname \in DOMAIN map
        THEN [exit |-> FALSE, serviceMap |-> map,
              err |-> ErrorString("rpc: service already defined: " \o Str(sname))]
        ELSE [exit |-> FALSE, err |-> NilError, serviceMap |-> Put(map, sname, s)]

\* the body of register, from the name's resolution to the return: whether
\* log.Exit was called, the error returned and the service map left behind
register(map, rcvr, name, useName) ==
    LET sname == IF useName THEN name ELSE rcvr.typeName
        method == MethodTable(rcvr)
        s == [name |-> sname, rcvr |-> rcvr.id, method |-> method]
    IN  IF sname = <<>> THEN [exit |-> TRUE, err |-> NilError, serviceMap |-> map]
        ELSE IF TypPkgPath(rcvr) /\ ~isExported(sname) /\ ~useName
        THEN [exit |-> FALSE, serviceMap |-> map,
              err |-> ErrorString("rpc Register: type " \o Str(sname) \o " is not exported")]
        ELSE IF sname \in DOMAIN map
        THEN [exit |-> FALSE, serviceMap |-> map,
              err |-> ErrorString("rpc: service already defined: " \o Str(sname))]
        ELSE IF DOMAIN method = {}
        THEN [exit |-> FALSE, serviceMap |-> map,
              err |-> ErrorString("rpc Register: type " \o Str(sname)
                        \o " has no exported methods of suitable type")]
        ELSE [exit |-> FALSE, err |-> NilError, serviceMap |-> Put(map, sname, s)]

NoArgs == [rcvr |-> None, name |-> <<>>, useName |-> FALSE]

\* Server.Register(rcvr) is called
Register(t) ==
    /\ ~exited /\ pc[t] = "idle"
    /\ \E rcvr \in Receivers :
         regArgs' = [regArgs EXCEPT ![t] =
                        [rcvr |-> rcvr.id, name |-> <<>>, useName |-> FALSE]]
    /\ pc' = [pc EXCEPT ![t] = "rlock"]
    /\ UNCHANGED <<serviceMap, mutex, exited, regErr, mapBefore, first, serveVars,
                   passed, sLocal>>

\* Server.RegisterName(name, rcvr) is called
RegisterName(t) ==
    /\ ~exited /\ pc[t] = "idle"
    /\ \E rcvr \in Receivers, name \in ExplicitNames :
         regArgs' = [regArgs EXCEPT ![t] =
                        [rcvr |-> rcvr.id, name |-> name, useName |-> TRUE]]
    /\ pc' = [pc EXCEPT ![t] = "rlock"]
    /\ UNCHANGED <<serviceMap, mutex, exited, regErr, mapBefore, first, serveVars,
                   passed, sLocal>>

\* register: server.Lock()
RegisterLock(t) ==
    /\ ~exited /\ pc[t] = "rlock" /\ mutex = Free
    /\ mutex' = t
    /\ pc' = [pc EXCEPT ![t] = "rbody"]
    /\ UNCHANGED <<serviceMap, exited, regVars, serveVars, passed>>

ReceiverOf(id) == CHOOSE r \in Receivers : r.id = id

\* register: the body under the lock and the deferred server.Unlock();
\* log.Exit ends the process with the lock held
RegisterBody(t) ==
    /\ ~exited /\ pc[t] = "rbody" /\ mutex = t
    /\ LET a == regArgs[t]
           r == register(serviceMap, ReceiverOf(a.rcvr), a.name, a.useName)
       IN  /\ serviceMap' = r.serviceMap
           /\ exited' = r.exit
           /\ mutex' = IF r.exit THEN t ELSE Free
           /\ regErr' = [regErr EXCEPT ![t] = r.err]
           /\ pc' = [pc EXCEPT ![t] = IF r.exit THEN "rbody" ELSE "rdone"]
           /\ first' = [n \in DOMAIN first \cup DOMAIN r.serviceMap |->
                           IF n \in DOMAIN first THEN first[n]
                           ELSE r.serviceMap[n].rcvr]
    /\ mapBefore' = [mapBefore EXCEPT ![t] = serviceMap]
    /\ UNCHANGED <<regArgs, serveVars, passed, sLocal>>

\* Register / RegisterName has returned to its caller
RegisterReturn(t) ==
    /\ ~exited /\ pc[t] = "rdone"
    /\ pc' = [pc EXCEPT ![t] = "idle"]
    /\ regArgs' = [regArgs EXCEPT ![t] = NoArgs]
    /\ regErr' = [regErr EXCEPT ![t] = NilError]
    /\ mapBefore' = [mapBefore EXCEPT ![t] = <<>>]
    /\ UNCHANGED <<serviceMap, mutex, exited, first, serveVars, passed, sLocal>>

(***************************************************************************)
(* register, statement by statement: what other goroutines can see while  *)
(* one of them is inside register.                                         *)
(***************************************************************************)
\* no service is being built
NoLocal == [name |-> <<>>, rcvr |-> None, method |-> <<>>, m |-> 0]

\* the methodType the loop makes for a method it keeps
Descriptor(decl) ==
    [Mutex |-> Free,
     method |-> decl.returns,
     argTypes |-> decl.in,
     returnType |-> decl.out[1],
     numCalls |-> 0]

\* register up to the method loop: the name is resolved and checked, and
\* s gets its name and an empty method table
RegisterCheck(t) ==
    /\ ~exited /\ pc[t] = "rbody"
    /\ LET a == regArgs[t]
           rcvr == ReceiverOf(a.rcvr)
           sname == IF a.useName THEN a.name ELSE rcvr.typeName
           err == IF TypPkgPath(rcvr) /\ ~isExported(sname) /\ ~a.useName
                  THEN ErrorString("rpc Register: type " \o Str(sname) \o " is not exported")
                  ELSE IF sname \in DOMAIN serviceMap
                  THEN ErrorString("rpc: service already defined: " \o Str(sname))
                  ELSE NilError
       IN  IF sname = <<>>
           THEN /\ exited' = TRUE
                /\ UNCHANGED <<mutex, pc, regErr, sLocal>>
           ELSE IF ~err.nil
           THEN /\ regErr' = [regErr EXCEPT ![t] = err]
                /\ mutex' = Free
                /\ pc' = [pc EXCEPT ![t] = "rdone"]
                /\ UNCHANGED <<exited, sLocal>>
           ELSE /\ sLocal' = [sLocal EXCEPT ![t] =
                                [name |-> sname, rcvr |-> a.rcvr, method |-> <<>>, m |-> 0]]
                /\ pc' = [pc EXCEPT ![t] = "rloop"]
                /\ UNCHANGED <<exited, mutex, regErr>>
    /\ mapBefore' = [mapBefore EXCEPT ![t] = serviceMap]
    /\ UNCHANGED <<serviceMap, regArgs, first, serveVars, passed>>

\* RegisterMethod with a fault: s is put into the service map while its
\* method table is being filled
RegisterMethodPublished(t) ==
    /\ ~exited /\ pc[t] = "rloop"
    /\ sLocal[t].m < Len(ReceiverOf(sLocal[t].rcvr).methods)
    /\ LET decl == ReceiverOf(sLocal[t].rcvr).methods[sLocal[t].m + 1]
           method == IF Eligible(decl)
                     THEN Put(sLocal[t].method, decl.name, Descriptor(decl))
                     ELSE sLocal[t].method
       IN  /\ sLocal' = [sLocal EXCEPT ![t].m = @ + 1, ![t].method = method]
           /\ serviceMap' = Put(serviceMap, sLocal[t].name,
                                [name |-> sLocal[t].name, rcvr |-> sLocal[t].rcvr,
                                 method |-> method])
    /\ UNCHANGED <<mutex, exited, pc, regArgs, regErr, mapBefore, first,
                   serveVars, passed>>

\* one turn of the method loop: the method is added to s.method if it is
\* eligible
RegisterMethod(t) ==
    /\ ~exited /\ pc[t] = "rloop"
    /\ sLocal[t].m < Len(ReceiverOf(sLocal[t].rcvr).methods)
    /\ LET decl == ReceiverOf(sLocal[t].rcvr).methods[sLocal[t].m + 1] IN
       sLocal' = [sLocal EXCEPT
                    ![t].m = @ + 1,
                    ![t].method = IF Eligible(decl)
                                  THEN Put(@, decl.name, Descriptor(decl))
                                  ELSE @]
    /\ UNCHANGED <<serviceMap, mutex, exited, pc, regArgs, regErr, mapBefore, first,
                   serveVars, passed>>

\* RegisterInsert with a fault: the error return leaves the lock held
RegisterInsertHeld(t) ==
    /\ ~exited /\ pc[t] = "rloop"
    /\ sLocal[t].m = Len(ReceiverOf(sLocal[t].rcvr).methods)
    /\ IF DOMAIN sLocal[t].method = {}
       THEN /\ regErr' = [regErr EXCEPT ![t] =
                            ErrorString("rpc Register: type " \o Str(sLocal[t].name)
                                \o " has no exported methods of suitable type")]
            /\ UNCHANGED <<serviceMap, first, mutex>>
       ELSE /\ regErr' = [regErr EXCEPT ![t] = NilError]
            /\ serviceMap' = Put(serviceMap, sLocal[t].name,
                                 [name |-> sLocal[t].name, rcvr |-> sLocal[t].rcvr,
                                  method |-> sLocal[t].method])
            /\ first' = IF sLocal[t].name \in DOMAIN first THEN first
                        ELSE Put(first, sLocal[t].name, sLocal[t].rcvr)
            /\ mutex' = Free
    /\ sLocal' = [sLocal EXCEPT ![t] = NoLocal]
    /\ pc' = [pc EXCEPT ![t] = "rdone"]
    /\ UNCHANGED <<exited, regArgs, mapBefore, serveVars, passed>>

\* register after the loop: a service without methods is refused, any other
\* is put into the service map; the deferred server.Unlock() runs
RegisterInsert(t) ==
    /\ ~exited /\ pc[t] = "rloop"
    /\ sLocal[t].m = Len(ReceiverOf(sLocal[t].rcvr).methods)
    /\ IF DOMAIN sLocal[t].method = {}
       THEN /\ regErr' = [regErr EXCEPT ![t] =
                            ErrorString("rpc Register: type " \o Str(sLocal[t].name)
                                \o " has no exported methods of suitable type")]
            /\ UNCHANGED <<serviceMap, first>>
       ELSE /\ regErr' = [regErr EXCEPT ![t] = NilError]
            /\ serviceMap' = Put(serviceMap, sLocal[t].name,
                                 [name |-> sLocal[t].name, rcvr |-> sLocal[t].rcvr,
                                  method |-> sLocal[t].method])
            /\ first' = IF sLocal[t].name \in DOMAIN first THEN first
                        ELSE Put(first, sLocal[t].name, sLocal[t].rcvr)
    /\ mutex' = Free
    /\ sLocal' = [sLocal EXCEPT ![t] = NoLocal]
    /\ pc' = [pc EXCEPT ![t] = "rdone"]
    /\ UNCHANGED <<exited, regArgs, mapBefore, serveVars, passed>>

(***************************************************************************)
(* Requests.                                                               *)
(***************************************************************************)
\* a raw JSON value of a params array: k its JSON kind, v the number in
\* units of 1/Scale for a number and 0 otherwise
JNum(v) == [k |-> "num", v |-> v]

JStr == [k |-> "str", v |-> 0]

JBool == [k |-> "bool", v |-> 0]

\* a JSON object that decodes into an A
JObj == [k |-> "obj", v |-> 0]

\* a JSON object whose fields do not have A's types
JBadObj == [k |-> "badobj", v |-> 0]

JNullValue == [k |-> "null", v |-> 0]

\* a *json.RawMessage that is nil
NilRaw == [nil |-> TRUE, raw |-> ""]

Raw(x) == [nil |-> FALSE, raw |-> x]

\* the params field of a body: absent, a JSON value that is no array, or an
\* array of raw values
NoParams == [present |-> FALSE, array |-> FALSE, elems |-> <<>>]

NotArray == [present |-> TRUE, array |-> FALSE, elems |-> <<>>]

Array(elems) == [present |-> TRUE, array |-> TRUE, elems |-> elems]

JsonValues == {JNum(5), JStr, JObj, JNullValue}

SeqsUpTo(S, n) == UNION {[1..k -> S] : k \in 0..n}

MethodStrings ==
    { <<"T", "S", ".", "A", "d", "d">>,
      <<"T", "S", ".", "G", "e", "t">>,
      <<"s", "v", ".", "G", "e", "t">>,
      <<"T", "S", ".", "N", "o">>,
      <<"O", "S", ".", "A", "d", "d">>,
      <<"T", "S", ".", "G", "e", "t", ".", "X">>,
      <<"T", "S">>,
      <<>> }

\* the raw texts of the ids of the requests
Ids == {"7"}

Malformed == [syntax |-> FALSE, fields |-> {}, id |-> "", method |-> <<>>, params |-> <<>>]

\* a request body: syntax tells whether it decodes as a request envelope,
\* fields which of "id", "method" and "params" the JSON object has; the
\* value of a field it has not is left empty
Bodies ==
    {Malformed} \cup
    {b \in [syntax : {TRUE}, fields : SUBSET {"id", "method", "params"},
            id : Ids \cup {""}, method : MethodStrings,
            params : {NotArray} \cup {Array(e) : e \in SeqsUpTo(JsonValues, MaxParams)}] :
        /\ "id" \in b.fields <=> b.id # ""
        /\ "method" \notin b.fields => b.method = <<>>
        /\ "params" \notin b.fields => b.params = NotArray}

NoReq == [Id |-> NilRaw, Method |-> <<>>, Params |-> NoParams]

\* dec.Decode(req): the jsonRequest of a body that decodes; a field the
\* body has not keeps its zero value
Decode(body) ==
    [Id |-> IF "id" \in body.fields THEN Raw(body.id) ELSE NilRaw,
     Method |-> IF "method" \in body.fields THEN body.method ELSE <<>>,
     Params |-> IF "params" \in body.fields THEN body.params ELSE NoParams]

\* the request bodies of the package's test, in the model's terms: a call
\* that fits, a call with a pointer argument, a method and a service that
\* do not exist, a body that is cut short, a parameter of the wrong type
\* and a list that is too short
tests ==
    {Malformed} \cup
    {[syntax |-> TRUE, fields |-> {"id", "method", "params"}, id |-> "7",
      method |-> c[1], params |-> Array(c[2])] :
        c \in { <<<<"T", "S", ".", "A", "d", "d">>, <<JNum(5), JNum(5)>>>>,
                <<<<"T", "S", ".", "G", "e", "t">>, <<JNum(5), JObj>>>>,
                <<<<"T", "S", ".", "N", "o">>, <<JNum(5), JNum(5)>>>>,
                <<<<"O", "S", ".", "A", "d", "d">>, <<JNum(5), JNum(5)>>>>,
                <<<<"T", "S", ".", "G", "e", "t">>, <<JStr, JObj>>>>,
                <<<<"T", "S", ".", "G", "e", "t">>, <<JObj>>>> }}

(***************************************************************************)
(* getParams                                                               *)
(***************************************************************************)
\* units of a float64 in the model: JNum(5) is 2.5
Scale == 2

\* int(f) for a float64 f given in units of 1/Scale: truncation toward zero
FloatToInt(v) == IF v >= 0 THEN v \div Scale ELSE -((-v) \div Scale)

TypeMismatch(i) == ErrorString("Type mismatch parameter " \o Itoa(i) \o ".")

\* what the json package answers for a JSON null decoded into a pointer to a
\* struct: it leaves the zero struct, or reports an error
NullIntoPtr == {"accept", "error"}

ArgOk(val) == [panic |-> FALSE, err |-> NilError, arg |-> val]

ArgErr(i) == [panic |-> FALSE, err |-> TypeMismatch(i), arg |-> [t |-> "none", v |-> 0]]

ArgPanic == [panic |-> TRUE, err |-> NilError, arg |-> [t |-> "none", v |-> 0]]

\* the dynamic type of json.Unmarshal(raw, &v) for an interface v
DynamicKind(raw) ==
    CASE raw.k = "num" -> "float"
      [] raw.k = "str" -> "string"
      [] raw.k = "bool" -> "bool"
      [] OTHER -> "map"

\* one turn of getParams' loop: parameter i (1-based) against argType
decodeArg(raw, argType, i, nullPtr) ==
    IF IsPtrType(argType)
    THEN IF raw.k = "obj" THEN ArgOk([t |-> "ptr", v |-> 1])
         ELSE IF raw.k = "null" /\ nullPtr = "accept" THEN ArgOk([t |-> "ptr", v |-> 0])
         ELSE ArgErr(i)
    ELSE IF raw.k = "null" THEN ArgPanic   \* reflect.NewValue(nil).Type()
         ELSE IF DynamicKind(raw) = argType.kind
         THEN ArgOk([t |-> argType.kind, v |-> raw.v])
         ELSE IF DynamicKind(raw) = "float"
         THEN IF argType.kind = "int"
              THEN ArgOk([t |-> "int", v |-> FloatToInt(raw.v)])
              ELSE ArgErr(i)
         ELSE ArgErr(i)

\* the loop of getParams from parameter i on, args the arguments so far
RECURSIVE decodeFrom(_, _, _, _, _)
decodeFrom(params, argTypes, i, acc, nullPtr) ==
    IF i > Len(argTypes) THEN [panic |-> FALSE, err |-> NilError, args |-> acc]
    ELSE LET r == decodeArg(params[i], argTypes[i], i, nullPtr) IN
         IF r.panic THEN [panic |-> TRUE, err |-> NilError, args |-> <<>>]
         ELSE IF ~r.err.nil THEN [panic |-> FALSE, err |-> r.err, args |-> <<>>]
         ELSE decodeFrom(params, argTypes, i + 1, Append(acc, r.arg), nullPtr)

JsonError == ErrorString("json: cannot unmarshal into []*json.RawMessage")

IncorrectNumber == ErrorString("Incorrect number of parameters.")

\* getParams with a fault: the length of the list is not compared
getParamsNoArity(rq, argTypes, nullPtr) ==
    IF ~rq.Params.present THEN [panic |-> TRUE, err |-> NilError, args |-> <<>>]
    ELSE IF ~rq.Params.array THEN [panic |-> FALSE, err |-> JsonError, args |-> <<>>]
    ELSE IF Len(rq.Params.elems) < Len(argTypes)
    THEN [panic |-> TRUE, err |-> NilError, args |-> <<>>]
    ELSE decodeFrom(rq.Params.elems, argTypes, 1, <<>>, nullPtr)

\* getParams(req, argTypes): panic when it does not return, else (args, err)
getParams(rq, argTypes, nullPtr) ==
    IF ~rq.Params.present THEN [panic |-> TRUE, err |-> NilError, args |-> <<>>]
    ELSE IF ~rq.Params.array THEN [panic |-> FALSE, err |-> JsonError, args |-> <<>>]
    ELSE IF Len(rq.Params.elems) # Len(argTypes)
    THEN [panic |-> FALSE, err |-> IncorrectNumber, args |-> <<>>]
    ELSE decodeFrom(rq.Params.elems, argTypes, 1, <<>>, nullPtr)

(***************************************************************************)
(* Server.ServeHTTP                                                        *)
(***************************************************************************)
\* sendError(w, s): the literal body, whose id is null and which has no result
sendError(s) == [id |-> JNull, result |-> Absent, error |-> JText(s)]

\* json encoding of a *json.RawMessage
EncodeRaw(id) == IF id.nil THEN JNull ELSE JText(id.raw)

\* the jsonResponse built and encoded from the return values
Response(rq, rv) ==
    LET errmsg == IF ~rv.err.nil THEN rv.err.s ELSE "" IN
    [id |-> EncodeRaw(rq.Id),
     result |-> IF errmsg # "" THEN JNull ELSE rv.res,
     error |-> IF errmsg # "" THEN JText(errmsg) ELSE JNull]

NoService == [ok |-> FALSE, name |-> <<>>]

NoReturn == [res |-> JNull, err |-> NilError]

\* service, ok := server.serviceMap[name]
lookup(map, name) ==
    IF name \in DOMAIN map THEN [ok |-> TRUE, name |-> name] ELSE NoService

Outcome(kind, err, m, a) == [kind |-> kind, err |-> err, mtype |-> m, args |-> a]

\* route with a fault: a method that is not found is not reported
routeNoMethodCheck(map, svc, sm, rq, nullPtr) ==
    IF ~svc.ok THEN Outcome("routing", ErrorString("Service not found."), <<>>, <<>>)
    ELSE IF Len(sm) < 2 THEN Outcome("panic", NilError, <<>>, <<>>)
    ELSE LET m == IF sm[2] \in DOMAIN map[svc.name].method THEN sm[2]
                  ELSE CHOOSE n \in DOMAIN map[svc.name].method : TRUE
             p == getParams(rq, map[svc.name].method[m].argTypes, nullPtr)
         IN  IF p.panic THEN Outcome("panic", NilError, <<>>, <<>>)
             ELSE IF ~p.err.nil THEN Outcome("params", p.err, <<>>, <<>>)
             ELSE Outcome("ok", NilError, m, p.args)

\* ServeHTTP from the test of ok to the call of getParams: the step the
\* dispatch ends at ("routing", "params"), "panic", or "ok" with the method
\* and the arguments
route(map, svc, sm, rq, nullPtr) ==
    IF ~svc.ok THEN Outcome("routing", ErrorString("Service not found."), <<>>, <<>>)
    ELSE IF Len(sm) < 2 THEN Outcome("panic", NilError, <<>>, <<>>)
    ELSE IF sm[2] \notin DOMAIN map[svc.name].method
    THEN Outcome("routing", ErrorString("Method not found."), <<>>, <<>>)
    ELSE LET p == getParams(rq, map[svc.name].method[sm[2]].argTypes, nullPtr) IN
         IF p.panic THEN Outcome("panic", NilError, <<>>, <<>>)
         ELSE IF ~p.err.nil THEN Outcome("params", p.err, <<>>, <<>>)
         ELSE Outcome("ok", NilError, sm[2], p.args)

Keys(map) == UNION {{<<n, m>> : m \in DOMAIN map[n].method} : n \in DOMAIN map}

\* the numCalls of every registered method
Counters(map) == [k \in Keys(map) |-> map[k[1]].method[k[2]].numCalls]

RECURSIVE SumOver(_, _)
SumOver(f, S) ==
    IF S = {} THEN 0
    ELSE LET k == CHOOSE x \in S : TRUE IN f[k] + SumOver(f, S \ {k})

TotalCalls == SumOver(Counters(serviceMap), Keys(serviceMap))

Passed(k) == IF k \in DOMAIN passed THEN passed[k] ELSE 0

\* the locals of a thread that is in no dispatch
Reset(t) ==
    /\ req' = [req EXCEPT ![t] = NoReq]
    /\ serviceMethod' = [serviceMethod EXCEPT ![t] = <<>>]
    /\ service' = [service EXCEPT ![t] = NoService]
    /\ mtype' = [mtype EXCEPT ![t] = <<>>]
    /\ args' = [args EXCEPT ![t] = <<>>]
    /\ returnValues' = [returnValues EXCEPT ![t] = NoReturn]

\* Serve with a fault: the error of dec.Decode is ignored
ServeIgnoreErr(t) ==
    /\ ~exited /\ pc[t] = "idle" /\ TotalCalls < MaxCalls
    /\ \E body \in Bodies :
         /\ req' = [req EXCEPT ![t] = Decode(body)]
         /\ serviceMethod' = [serviceMethod EXCEPT ![t] = Split(Decode(body).Method)]
         /\ pc' = [pc EXCEPT ![t] = "lock"]
         /\ stage' = [stage EXCEPT ![t] = IF body.syntax THEN "decoded" ELSE "protocol"]
         /\ w' = [w EXCEPT ![t] = <<>>]
    /\ before' = [before EXCEPT ![t] = Counters(serviceMap)]
    /\ invocations' = [invocations EXCEPT ![t] = 0]
    /\ acquired' = [acquired EXCEPT ![t] = 0]
    /\ UNCHANGED <<serviceMap, mutex, exited, regVars, service, mtype, args,
                   returnValues, passed, numCallsRead>>

\* ServeHTTP is called with a body: the envelope is decoded and the method
\* string split, or the protocol error is written
Serve(t) ==
    /\ ~exited /\ pc[t] = "idle" /\ TotalCalls < MaxCalls
    /\ \E body \in Bodies :
         IF ~body.syntax
         THEN /\ w' = [w EXCEPT ![t] = <<sendError("Invalid JSON-RPC.")>>]
              /\ pc' = [pc EXCEPT ![t] = "done"]
              /\ stage' = [stage EXCEPT ![t] = "protocol"]
              /\ UNCHANGED <<req, serviceMethod>>
         ELSE /\ req' = [req EXCEPT ![t] = Decode(body)]
              /\ serviceMethod' = [serviceMethod EXCEPT ![t] = Split(Decode(body).Method)]
              /\ pc' = [pc EXCEPT ![t] = "lock"]
              /\ stage' = [stage EXCEPT ![t] = "decoded"]
              /\ w' = [w EXCEPT ![t] = <<>>]
    /\ before' = [before EXCEPT ![t] = Counters(serviceMap)]
    /\ invocations' = [invocations EXCEPT ![t] = 0]
    /\ acquired' = [acquired EXCEPT ![t] = 0]
    /\ UNCHANGED <<serviceMap, mutex, exited, regVars, service, mtype, args,
                   returnValues, passed, numCallsRead>>

\* ServeHTTP is called with one of the bodies of the package's test
ServeTest(t) ==
    /\ ~exited /\ pc[t] = "idle" /\ TotalCalls < MaxCalls
    /\ \E body \in tests :
         IF ~body.syntax
         THEN /\ w' = [w EXCEPT ![t] = <<sendError("Invalid JSON-RPC.")>>]
              /\ pc' = [pc EXCEPT ![t] = "done"]
              /\ stage' = [stage EXCEPT ![t] = "protocol"]
              /\ UNCHANGED <<req, serviceMethod>>
         ELSE /\ req' = [req EXCEPT ![t] = Decode(body)]
              /\ serviceMethod' = [serviceMethod EXCEPT ![t] = Split(Decode(body).Method)]
              /\ pc' = [pc EXCEPT ![t] = "lock"]
              /\ stage' = [stage EXCEPT ![t] = "decoded"]
              /\ w' = [w EXCEPT ![t] = <<>>]
    /\ before' = [before EXCEPT ![t] = Counters(serviceMap)]
    /\ invocations' = [invocations EXCEPT ![t] = 0]
    /\ acquired' = [acquired EXCEPT ![t] = 0]
    /\ UNCHANGED <<serviceMap, mutex, exited, regVars, service, mtype, args,
                   returnValues, passed, numCallsRead>>

\* server.Lock()
ServeLock(t) ==
    /\ ~exited /\ pc[t] = "lock" /\ mutex = Free
    /\ mutex' = t
    /\ pc' = [pc EXCEPT ![t] = "lookup"]
    /\ acquired' = [acquired EXCEPT ![t] = @ + 1]
    /\ UNCHANGED <<serviceMap, exited, regVars, req, serviceMethod, service, mtype,
                   args, returnValues, w, stage, before, invocations, passed,
                   numCallsRead>>

\* ServeLookup with a fault: the registry lock is kept after the read
ServeLookupHold(t) ==
    /\ ~exited /\ pc[t] = "lookup" /\ mutex = t
    /\ service' = [service EXCEPT ![t] = lookup(serviceMap, serviceMethod[t][1])]
    /\ pc' = [pc EXCEPT ![t] = "route"]
    /\ UNCHANGED <<serviceMap, mutex, exited, regVars, req, serviceMethod, mtype, args,
                   returnValues, w, stage, before, invocations, acquired, passed,
                   numCallsRead>>

\* the read of the service map and server.Unlock()
ServeLookup(t) ==
    /\ ~exited /\ pc[t] = "lookup" /\ mutex = t
    /\ service' = [service EXCEPT ![t] = lookup(serviceMap, serviceMethod[t][1])]
    /\ mutex' = Free
    /\ pc' = [pc EXCEPT ![t] = "route"]
    /\ UNCHANGED <<serviceMap, exited, regVars, req, serviceMethod, mtype, args,
                   returnValues, w, stage, before, invocations, acquired, passed,
                   numCallsRead>>

\* ServeRoute with a fault: the return after getParams' error is missing
ServeRouteNoReturn(t) ==
    /\ ~exited /\ pc[t] = "route"
    /\ \E nullPtr \in NullIntoPtr :
         LET o == route(serviceMap, service[t], serviceMethod[t], req[t], nullPtr) IN
         /\ stage' = [stage EXCEPT ![t] = o.kind]
         /\ mtype' = [mtype EXCEPT ![t] =
                        IF o.kind = "params" THEN serviceMethod[t][2] ELSE o.mtype]
         /\ args' = [args EXCEPT ![t] = o.args]
         /\ w' = [w EXCEPT ![t] =
                    IF o.kind \in {"routing", "params"}
                    THEN Append(@, sendError(o.err.s)) ELSE @]
         /\ pc' = [pc EXCEPT ![t] =
                    CASE o.kind \in {"ok", "params"} -> "mlock"
                      [] o.kind = "panic" -> "panicked"
                      [] OTHER -> "done"]
         /\ passed' =
              IF o.kind \in {"ok", "params"}
              THEN LET k == <<service[t].name, serviceMethod[t][2]>> IN
                   [x \in DOMAIN passed \cup {k} |->
                       IF x = k THEN Passed(k) + 1 ELSE passed[x]]
              ELSE passed
    /\ UNCHANGED <<serviceMap, mutex, exited, regVars, req, serviceMethod, service,
                   returnValues, before, invocations, acquired, numCallsRead>>

\* routing and parameter decoding: an error is written, a panic leaves
\* ServeHTTP, or the arguments are ready
ServeRoute(t) ==
    /\ ~exited /\ pc[t] = "route"
    /\ \E nullPtr \in NullIntoPtr :
         LET o == route(serviceMap, service[t], serviceMethod[t], req[t], nullPtr) IN
         /\ stage' = [stage EXCEPT ![t] = o.kind]
         /\ mtype' = [mtype EXCEPT ![t] = o.mtype]
         /\ args' = [args EXCEPT ![t] = o.args]
         /\ w' = [w EXCEPT ![t] =
                    IF o.kind \in {"routing", "params"}
                    THEN Append(@, sendError(o.err.s)) ELSE @]
         /\ pc' = [pc EXCEPT ![t] =
                    CASE o.kind = "ok" -> "mlock"
                      [] o.kind = "panic" -> "panicked"
                      [] OTHER -> "done"]
         /\ passed' =
              IF o.kind = "ok"
              THEN LET k == <<service[t].name, o.mtype>> IN
                   [x \in DOMAIN passed \cup {k} |->
                       IF x = k THEN Passed(k) + 1 ELSE passed[x]]
              ELSE passed
    /\ UNCHANGED <<serviceMap, mutex, exited, regVars, req, serviceMethod, service,
                   returnValues, before, invocations, acquired, numCallsRead>>

MethodOf(t) == serviceMap[service[t].name].method[mtype[t]]

\* ServeCountLock with a fault: the method's Mutex is taken without waiting
\* for it
ServeCountLockNoWait(t) ==
    /\ ~exited /\ pc[t] = "mlock"
    /\ serviceMap' = [serviceMap EXCEPT ![service[t].name].method[mtype[t]].Mutex = t]
    /\ pc' = [pc EXCEPT ![t] = "count"]
    /\ UNCHANGED <<mutex, exited, regVars, serveVars, passed>>

\* mtype.Lock()
ServeCountLock(t) ==
    /\ ~exited /\ pc[t] = "mlock" /\ MethodOf(t).Mutex = Free
    /\ serviceMap' = [serviceMap EXCEPT ![service[t].name].method[mtype[t]].Mutex = t]
    /\ pc' = [pc EXCEPT ![t] = "count"]
    /\ UNCHANGED <<mutex, exited, regVars, serveVars, passed>>

\* ServeCount with a fault: the counter is left alone
ServeCountSkip(t) ==
    /\ ~exited /\ pc[t] = "count" /\ MethodOf(t).Mutex = t
    /\ serviceMap' = [serviceMap EXCEPT ![service[t].name].method[mtype[t]].Mutex = Free]
    /\ pc' = [pc EXCEPT ![t] = "call"]
    /\ UNCHANGED <<mutex, exited, regVars, serveVars, passed>>

\* mtype.numCalls++ and mtype.Unlock()
ServeCount(t) ==
    /\ ~exited /\ pc[t] = "count" /\ MethodOf(t).Mutex = t
    /\ serviceMap' = [serviceMap EXCEPT
                        ![service[t].name].method[mtype[t]].numCalls = @ + 1,
                        ![service[t].name].method[mtype[t]].Mutex = Free]
    /\ pc' = [pc EXCEPT ![t] = "call"]
    /\ UNCHANGED <<mutex, exited, regVars, serveVars, passed>>

\* mtype.numCalls++, first half: the counter is read
ServeCountLoad(t) ==
    /\ ~exited /\ pc[t] = "count"
    /\ numCallsRead' = [numCallsRead EXCEPT ![t] = MethodOf(t).numCalls]
    /\ pc' = [pc EXCEPT ![t] = "store"]
    /\ UNCHANGED <<serviceMap, mutex, exited, regVars, req, serviceMethod, service,
                   mtype, args, returnValues, w, stage, before, invocations,
                   acquired, passed>>

\* mtype.numCalls++, second half: the value read plus one is written;
\* mtype.Unlock()
ServeCountStore(t) ==
    /\ ~exited /\ pc[t] = "store"
    /\ serviceMap' = [serviceMap EXCEPT
                        ![service[t].name].method[mtype[t]].numCalls = numCallsRead[t] + 1,
                        ![service[t].name].method[mtype[t]].Mutex = Free]
    /\ numCallsRead' = [numCallsRead EXCEPT ![t] = 0]
    /\ pc' = [pc EXCEPT ![t] = "call"]
    /\ UNCHANGED <<mutex, exited, regVars, req, serviceMethod, service, mtype, args,
                   returnValues, w, stage, before, invocations, acquired, passed>>

\* function.Call(args): the method returns one of the pairs it can return
ServeCall(t) ==
    /\ ~exited /\ pc[t] = "call"
    /\ \E rv \in MethodOf(t).method :
         returnValues' = [returnValues EXCEPT ![t] = rv]
    /\ invocations' = [invocations EXCEPT ![t] = @ + 1]
    /\ stage' = [stage EXCEPT ![t] = "invoked"]
    /\ pc' = [pc EXCEPT ![t] = "respond"]
    /\ UNCHANGED <<serviceMap, mutex, exited, regVars, req, serviceMethod, service,
                   mtype, args, w, before, acquired, passed, numCallsRead>>

\* the response is built from the return values and encoded
ServeRespond(t) ==
    /\ ~exited /\ pc[t] = "respond"
    /\ w' = [w EXCEPT ![t] = Append(@, Response(req[t], returnValues[t]))]
    /\ pc' = [pc EXCEPT ![t] = "done"]
    /\ UNCHANGED <<serviceMap, mutex, exited, regVars, req, serviceMethod, service,
                   mtype, args, returnValues, stage, before, invocations, acquired,
                   passed, numCallsRead>>

\* ServeHTTP has returned to its caller
ServeReturn(t) ==
    /\ ~exited /\ pc[t] = "done"
    /\ Reset(t)
    /\ w' = [w EXCEPT ![t] = <<>>]
    /\ stage' = [stage EXCEPT ![t] = "none"]
    /\ before' = [before EXCEPT ![t] = <<>>]
    /\ invocations' = [invocations EXCEPT ![t] = 0]
    /\ acquired' = [acquired EXCEPT ![t] = 0]
    /\ pc' = [pc EXCEPT ![t] = "idle"]
    /\ UNCHANGED <<serviceMap, mutex, exited, regVars, passed, numCallsRead>>

(***************************************************************************)
(* The program.  NewServer() leaves an empty service map.  In Spec one     *)
(* goroutine makes the calls one after the other, as the package's test    *)
(* does.  A panic that leaves ServeHTTP ends that goroutine.               *)
(***************************************************************************)
Init ==
    /\ serviceMap = <<>>
    /\ mutex = Free
    /\ exited = FALSE
    /\ pc = [t \in Threads |-> "idle"]
    /\ regArgs = [t \in Threads |-> NoArgs]
    /\ regErr = [t \in Threads |-> NilError]
    /\ mapBefore = [t \in Threads |-> <<>>]
    /\ first = <<>>
    /\ req = [t \in Threads |-> NoReq]
    /\ serviceMethod = [t \in Threads |-> <<>>]
    /\ service = [t \in Threads |-> NoService]
    /\ mtype = [t \in Threads |-> <<>>]
    /\ args = [t \in Threads |-> <<>>]
    /\ returnValues = [t \in Threads |-> NoReturn]
    /\ w = [t \in Threads |-> <<>>]
    /\ stage = [t \in Threads |-> "none"]
    /\ before = [t \in Threads |-> <<>>]
    /\ invocations = [t \in Threads |-> 0]
    /\ acquired = [t \in Threads |-> 0]
    /\ passed = <<>>
    /\ sLocal = [t \in Threads |-> NoLocal]
    /\ numCallsRead = [t \in Threads |-> 0]

Main == "t1"

Step(t) ==
    \/ RegisterLock(t)
    \/ RegisterBody(t)
    \/ RegisterReturn(t)
    \/ ServeLock(t)
    \/ ServeLookup(t)
    \/ ServeRoute(t)
    \/ ServeCountLock(t)
    \/ ServeCount(t)
    \/ ServeCall(t)
    \/ ServeRespond(t)
    \/ ServeReturn(t)

Next ==
    \/ Register(Main)
    \/ RegisterName(Main)
    \/ Serve(Main)
    \/ Step(Main)

Spec == Init /\ [][Next]_vars

(***************************************************************************)
(* The program under concurrency: the http package runs ServeHTTP in one   *)
(* goroutine per connection, and Register is called from any of them.      *)
(* The goroutines are interleaved statement by statement: register and     *)
(* mtype.numCalls++ are taken apart.  The requests are those of the test.  *)
(***************************************************************************)
StepConc(t) ==
    \/ RegisterLock(t)
    \/ RegisterCheck(t)
    \/ RegisterMethod(t)
    \/ RegisterInsert(t)
    \/ RegisterReturn(t)
    \/ ServeLock(t)
    \/ ServeLookup(t)
    \/ ServeRoute(t)
    \/ ServeCountLock(t)
    \/ ServeCountLoad(t)
    \/ ServeCountStore(t)
    \/ ServeCall(t)
    \/ ServeRespond(t)
    \/ ServeReturn(t)

NextConc ==
    \E t \in Threads :
        \/ Register(t)
        \/ ServeTest(t)
        \/ StepConc(t)

SpecConc == Init /\ [][NextConc]_vars

(***************************************************************************)
(* Properties.                                                             *)
(***************************************************************************)
\* the dispatch of t is past routing and parameter decoding
AfterRoute(t) == pc[t] \in {"mlock", "count", "call", "respond", "done", "panicked"}

DotsOf(m) == {i \in DOMAIN m : m[i] = Dot}

\* a method string of the form "S.M": exactly one separator
WellFormed(m) == Cardinality(DotsOf(m)) = 1

ServicePart(m) == SubSeq(m, 1, (CHOOSE i \in DotsOf(m) : TRUE) - 1)

MethodPart(m) == SubSeq(m, (CHOOSE i \in DotsOf(m) : TRUE) + 1, Len(m))

\* t wrote one response, an error with this message and no result
WroteError(t, msg) ==
    /\ Len(w[t]) = 1
    /\ w[t][1].error = JText(msg)
    /\ w[t][1].result.f # "value"

Populated(j) == j.f = "value"

\* C1: a request for "S.M" with S not registered is answered "Service not
\* found.", one with S registered and M not in S's method table "Method not
\* found."; no method is invoked and no call counter changes.
C1_RoutingErrors ==
    \A t \in Threads :
        (AfterRoute(t) /\ WellFormed(req[t].Method)) =>
            LET S == ServicePart(req[t].Method)
                M == MethodPart(req[t].Method)
            IN  /\ S \notin DOMAIN serviceMap =>
                      /\ pc[t] = "done"
                      /\ WroteError(t, "Service not found.")
                      /\ invocations[t] = 0
                      /\ Counters(serviceMap) = before[t]
                /\ (S \in DOMAIN serviceMap /\ M \notin DOMAIN serviceMap[S].method) =>
                      /\ pc[t] = "done"
                      /\ WroteError(t, "Method not found.")
                      /\ invocations[t] = 0
                      /\ Counters(serviceMap) = before[t]

\* C1 witness: a registered service was asked for a method it does not have
C1_Witness ==
    \E t \in Threads :
        /\ pc[t] = "done" /\ WellFormed(req[t].Method)
        /\ ServicePart(req[t].Method) \in DOMAIN serviceMap
        /\ MethodPart(req[t].Method)
              \notin DOMAIN serviceMap[ServicePart(req[t].Method)].method
        /\ WroteError(t, "Method not found.")

\* C2: a body that does not decode as an envelope is answered "Invalid
\* JSON-RPC." with a null id, and the dispatch returns without acquiring the
\* registry lock, reading the service map or changing a call counter.
C2_ProtocolError ==
    \A t \in Threads :
        stage[t] = "protocol" =>
            /\ pc[t] = "done"
            /\ WroteError(t, "Invalid JSON-RPC.")
            /\ w[t][1].id = JNull
            /\ acquired[t] = 0
            /\ mutex # t
            /\ service[t] = NoService
            /\ invocations[t] = 0
            /\ Counters(serviceMap) = before[t]

\* C2 witness: a malformed body was answered while a service is registered
C2_Witness ==
    \E t \in Threads :
        /\ stage[t] = "protocol" /\ pc[t] = "done"
        /\ DOMAIN serviceMap # {}
        /\ WroteError(t, "Invalid JSON-RPC.")

\* C3 (as claimed): every response to a decoded request carries the id of
\* the request, on the error paths too.
C3_IdEchoed ==
    \A t \in Threads :
        (pc[t] = "done" /\ stage[t] # "protocol") =>
            /\ Len(w[t]) = 1
            /\ w[t][1].id = (IF req[t].Id.nil THEN JNull ELSE JText(req[t].Id.raw))

\* the dispatches of t's kind that passed decoding and have not counted yet
Uncounted(k) ==
    Cardinality({t \in Threads : /\ pc[t] \in {"mlock", "count", "store"}
                                 /\ <<service[t].name, mtype[t]>> = k})

\* C4: each method's numCalls is the number of requests to it that passed
\* routing and parameter decoding: a dispatch that ends with a protocol,
\* routing or parameter error leaves every counter as it was, one that
\* invoked the method raised that method's counter by one and no other,
\* whatever the method returned.
C4_CallCounter ==
    /\ DOMAIN passed \subseteq Keys(serviceMap)
    /\ \A k \in Keys(serviceMap) :
          serviceMap[k[1]].method[k[2]].numCalls + Uncounted(k) = Passed(k)
    /\ \A t \in Threads :
          /\ (pc[t] \in {"done", "panicked"}
                /\ stage[t] \in {"protocol", "routing", "params", "panic"}) =>
                Counters(serviceMap) = before[t]
          /\ (pc[t] \in {"call", "respond", "done"} /\ stage[t] \in {"ok", "invoked"}) =>
                LET k == <<service[t].name, mtype[t]>> IN
                /\ DOMAIN before[t] = Keys(serviceMap)
                /\ \A x \in Keys(serviceMap) :
                      Counters(serviceMap)[x] = before[t][x] + (IF x = k THEN 1 ELSE 0)

\* C4 witness: a method that returned an error was counted a second time
C4_Witness ==
    \E t \in Threads :
        /\ pc[t] = "done" /\ stage[t] = "invoked"
        /\ ~returnValues[t].err.nil
        /\ MethodOf(t).numCalls = 2

\* C5 (as claimed): every response has exactly one of result and error
\* populated.
C5_ExactlyOne ==
    \A t \in Threads :
        pc[t] = "done" =>
            /\ Len(w[t]) = 1
            /\ Populated(w[t][1].result) # Populated(w[t][1].error)

\* C6 (as claimed): no panic leaves ServeHTTP, and a dispatch that ended
\* wrote exactly one response.
C6_NoPanic ==
    \A t \in Threads :
        /\ pc[t] # "panicked"
        /\ pc[t] = "done" => Len(w[t]) = 1

\* the dispatch of t found its service and its method
Routed(t) ==
    /\ service[t].ok
    /\ Len(serviceMethod[t]) >= 2
    /\ serviceMethod[t][2] \in DOMAIN serviceMap[service[t].name].method

\* the declared non-receiver argument types of the method t was routed to
Declared(t) == serviceMap[service[t].name].method[serviceMethod[t][2]].argTypes

\* C7: a params array whose length differs from the number of declared
\* arguments is answered "Incorrect number of parameters.", whatever its
\* elements are: never a type mismatch, a panic or an invocation.
C7_Arity ==
    \A t \in Threads :
        (/\ AfterRoute(t) /\ Routed(t)
         /\ req[t].Params.array
         /\ Len(req[t].Params.elems) # Len(Declared(t))) =>
            /\ pc[t] = "done"
            /\ WroteError(t, "Incorrect number of parameters.")
            /\ invocations[t] = 0

\* C7 witness: a list that is too short and whose only element has the wrong
\* type for its position
C7_Witness ==
    \E t \in Threads :
        /\ pc[t] = "done" /\ Routed(t)
        /\ Declared(t) = <<Float64Type, Float64Type>>
        /\ req[t].Params.array /\ req[t].Params.elems = <<JStr>>
        /\ WroteError(t, "Incorrect number of parameters.")

\* the raw value cannot be an argument of the type.  (A null for a pointer
\* is left out: the json package decides whether it is.)
Misfit(raw, type) ==
    IF type.kind = "ptr" THEN raw.k \notin {"obj", "null"}
    ELSE \/ raw.k = "null"
         \/ /\ DynamicKind(raw) # type.kind
            /\ ~(raw.k = "num" /\ type.kind = "int")

Misfits(t) ==
    {i \in 1..Len(Declared(t)) : Misfit(req[t].Params.elems[i], Declared(t)[i])}

Least(S) == CHOOSE n \in S : \A m \in S : n <= m

\* C8 (as claimed): a list of the right length with a parameter that does
\* not fit is answered "Type mismatch parameter N.", N the position of the
\* first such parameter (or of a null for a pointer before it).
C8_FirstMismatch ==
    \A t \in Threads :
        (/\ AfterRoute(t) /\ Routed(t)
         /\ req[t].Params.array
         /\ Len(req[t].Params.elems) = Len(Declared(t))
         /\ Misfits(t) # {}) =>
            /\ pc[t] = "done"
            /\ args[t] = <<>>
            /\ invocations[t] = 0
            /\ \E n \in 1..Least(Misfits(t)) :
                  /\ n = Least(Misfits(t)) \/ req[t].Params.elems[n].k = "null"
                  /\ WroteError(t, "Type mismatch parameter " \o Digits[n + 1] \o ".")

\* the name a call of register resolves
Resolved(a) == IF a.useName THEN a.name ELSE ReceiverOf(a.rcvr).typeName

\* C9: a registration under a name that is taken fails, a registration of a
\* receiver without an eligible method fails, both leave the map alone, and
\* every name stays bound to the receiver it was first bound to.
C9_FirstRegistrationWins ==
    /\ \A n \in DOMAIN serviceMap : n \in DOMAIN first /\ serviceMap[n].rcvr = first[n]
    /\ \A t \in Threads :
          pc[t] = "rdone" =>
              /\ Resolved(regArgs[t]) \in DOMAIN mapBefore[t] =>
                    ~regErr[t].nil /\ serviceMap = mapBefore[t]
              /\ regArgs[t].rcvr = "Empty" =>
                    ~regErr[t].nil /\ serviceMap = mapBefore[t]
              /\ regErr[t].nil =>
                    /\ Resolved(regArgs[t]) \notin DOMAIN mapBefore[t]
                    /\ serviceMap[Resolved(regArgs[t])].rcvr = regArgs[t].rcvr

\* C9 witness: another receiver was refused a name that is taken
C9_Witness ==
    \E t \in Threads :
        /\ pc[t] = "rdone" /\ ~regErr[t].nil
        /\ Resolved(regArgs[t]) \in DOMAIN mapBefore[t]
        /\ serviceMap[Resolved(regArgs[t])].rcvr # regArgs[t].rcvr
        /\ regArgs[t].rcvr # "Empty"

\* C10: RegisterName binds the explicit name and not the type's name, and
\* accepts a lower-case name, which Register refuses when it derives it from
\* the type; requests are then routed by that name: the explicit name
\* reaches the receiver, the type's name is not found.
C10_ExplicitName ==
    /\ \A t \in Threads :
          (pc[t] = "rdone" /\ regArgs[t].useName) =>
              LET a == regArgs[t]
                  typeName == ReceiverOf(a.rcvr).typeName
              IN  /\ (a.name \notin DOMAIN mapBefore[t] /\ a.rcvr # "Empty") =>
                        /\ regErr[t].nil
                        /\ a.name \in DOMAIN serviceMap
                        /\ serviceMap[a.name].name = a.name
                        /\ serviceMap[a.name].rcvr = a.rcvr
                  /\ (typeName # a.name /\ typeName \notin DOMAIN mapBefore[t]) =>
                        typeName \notin DOMAIN serviceMap
    /\ \A t \in Threads :
          (pc[t] = "rdone" /\ ~regArgs[t].useName /\ regArgs[t].rcvr = "hidden") =>
              ~regErr[t].nil /\ serviceMap = mapBefore[t]
    /\ \A t \in Threads :
          (AfterRoute(t) /\ WellFormed(req[t].Method)) =>
              LET S == ServicePart(req[t].Method) IN
              IF S \in DOMAIN serviceMap
              THEN service[t] = [ok |-> TRUE, name |-> S]
                   /\ ~WroteError(t, "Service not found.")
              ELSE pc[t] = "done" /\ WroteError(t, "Service not found.")

\* C10 witness: the unexported type was registered under "sv" only, and a
\* request for "sv.Get" invoked its method
C10_Witness ==
    \E t \in Threads :
        /\ pc[t] = "done" /\ stage[t] = "invoked"
        /\ ServicePart(req[t].Method) = <<"s", "v">>
        /\ serviceMap[<<"s", "v">>].rcvr = "hidden"
        /\ <<"h", "s">> \notin DOMAIN serviceMap

\* t and u dispatch the same method of the same service
SameMethod(t, u) == service[t].name = service[u].name /\ mtype[t] = mtype[u]

\* C11: under every interleaving a method's numCalls is the number of the
\* requests to it that passed routing and parameter decoding, less those
\* that have not counted yet, so N concurrent requests that completed
\* raised it by exactly N; a dispatch that waits for the method's lock waits
\* for a dispatch of the same method only, and one that holds the method's
\* lock is never kept from counting, whoever holds the registry lock or
\* the lock of another method.
C11_ConcurrentCount ==
    /\ \A k \in Keys(serviceMap) :
          serviceMap[k[1]].method[k[2]].numCalls + Uncounted(k) = Passed(k)
    /\ ~exited =>
          \A t \in Threads :
              /\ pc[t] = "mlock" =>
                    \/ ENABLED ServeCountLock(t)
                    \/ \E u \in Threads \ {t} :
                          pc[u] \in {"count", "store"} /\ SameMethod(t, u)
              /\ pc[t] = "count" => ENABLED ServeCountLoad(t)
              /\ pc[t] = "store" => ENABLED ServeCountStore(t)

\* C11 witness: two requests to the same method that began before either
\* counted have both counted, and the counter is 2
C11_Witness ==
    \E t, u \in Threads :
        /\ t # u /\ SameMethod(t, u)
        /\ pc[t] \in {"call", "respond", "done"} /\ stage[t] \in {"ok", "invoked"}
        /\ pc[u] \in {"call", "respond", "done"} /\ stage[u] \in {"ok", "invoked"}
        /\ before[t][<<service[t].name, mtype[t]>>] = 0
        /\ before[u][<<service[u].name, mtype[u]>>] = 0
        /\ MethodOf(t).numCalls = 2

\* the holder of the registry lock is at a statement that waits for nothing
HolderRuns(v) ==
    \/ pc[v] = "lookup" /\ ENABLED ServeLookup(v)
    \/ pc[v] = "rbody" /\ ENABLED RegisterCheck(v)
    \/ pc[v] = "rloop" /\ ENABLED (RegisterMethod(v) \/ RegisterInsert(v))

\* C12: a dispatch holds the registry lock for the read of the service map
\* only, never while it decodes parameters, counts, invokes the method or
\* writes the response; so whoever waits for the registry lock waits for a
\* goroutine that is reading the map or inside register and can go on, and
\* never for a method that does not return.
C12_LockScope ==
    /\ \A t \in Threads :
          pc[t] \in {"route", "mlock", "count", "store", "call", "respond", "done",
                     "panicked", "idle", "lock", "rlock", "rdone"} => mutex # t
    /\ ~exited =>
          \A u \in Threads :
              pc[u] \in {"lock", "rlock"} =>
                  \/ ENABLED (ServeLock(u) \/ RegisterLock(u))
                  \/ \E v \in Threads \ {u} : mutex = v /\ HolderRuns(v)

\* C12 witness: while one request is inside its method, another goroutine
\* holds the registry lock for a lookup or a registration
C12_Witness ==
    \E t, u \in Threads :
        /\ pc[t] = "call" /\ acquired[t] = 1
        /\ mutex = u /\ pc[u] \in {"lookup", "rloop"}

\* the text before the first separator of a method string, and all the text
\* after it
BeforeFirstDot(m) == SubSeq(m, 1, Least(DotsOf(m)) - 1)

AfterFirstDot(m) == SubSeq(m, Least(DotsOf(m)) + 1, Len(m))

\* C13 (as claimed): the method string is split at its first "." only: a
\* request whose text after the first "." is not a method of the registered
\* service named before it is answered "Method not found." and invokes
\* nothing, "S.M.X" with S and M registered included.
C13_FirstDot ==
    \A t \in Threads :
        (/\ AfterRoute(t) /\ DotsOf(req[t].Method) # {}
         /\ BeforeFirstDot(req[t].Method) \in DOMAIN serviceMap
         /\ AfterFirstDot(req[t].Method)
               \notin DOMAIN serviceMap[BeforeFirstDot(req[t].Method)].method) =>
            /\ pc[t] = "done"
            /\ WroteError(t, "Method not found.")
            /\ invocations[t] = 0

\* C14: within a dispatch the steps come in one order and a failure ends it:
\* the method is invoked at most once, and only after the service and the
\* method were found, the parameters decoded and the counter raised; a
\* response is written once, as the last step, after the invocation has
\* returned or instead of it; a dispatch that failed at the envelope, the
\* routing or the parameters invoked nothing.
C14_Pipeline ==
    \A t \in Threads :
        /\ invocations[t] <= 1
        /\ invocations[t] = 1 =>
              /\ pc[t] \in {"respond", "done"} /\ stage[t] = "invoked"
              /\ Routed(t) /\ mtype[t] = serviceMethod[t][2]
              /\ Len(args[t]) = Len(Declared(t))
              /\ MethodOf(t).numCalls = before[t][<<service[t].name, mtype[t]>>] + 1
              /\ returnValues[t] \in MethodOf(t).method
        /\ pc[t] \in {"mlock", "count", "store", "call"} =>
              /\ invocations[t] = 0 /\ stage[t] = "ok" /\ Routed(t)
              /\ Len(args[t]) = Len(Declared(t))
        /\ pc[t] = "call" =>
              MethodOf(t).numCalls = before[t][<<service[t].name, mtype[t]>>] + 1
        /\ Len(w[t]) <= 1
        /\ Len(w[t]) = 1 =>
              /\ pc[t] = "done"
              /\ IF stage[t] = "invoked"
                 THEN invocations[t] = 1 /\ w[t][1] = Response(req[t], returnValues[t])
                 ELSE invocations[t] = 0 /\ stage[t] \in {"protocol", "routing", "params"}
        /\ stage[t] \in {"protocol", "routing", "params"} =>
              /\ pc[t] = "done" /\ invocations[t] = 0 /\ Len(w[t]) = 1
              /\ Counters(serviceMap) = before[t]

\* C14 witness: a dispatch that ran through: one invocation, then one
\* response
C14_Witness ==
    \E t \in Threads :
        /\ pc[t] = "done" /\ stage[t] = "invoked"
        /\ invocations[t] = 1 /\ Len(w[t]) = 1
        /\ Len(args[t]) = 2

\* C14 witness of the failure: the parameters of a routed request did not
\* decode, and nothing was invoked
C14_WitnessParams ==
    \E t \in Threads :
        /\ pc[t] = "done" /\ stage[t] = "params" /\ Routed(t)
        /\ invocations[t] = 0 /\ Len(w[t]) = 1

\* C15 (as claimed): the response to an invocation whose second return
\* value is not nil is an error envelope with that value's description and
\* no result; any other is a success envelope with the first return value
\* and no error.
C15_ErrorEnvelope ==
    \A t \in Threads :
        (pc[t] = "done" /\ stage[t] = "invoked") =>
            /\ Len(w[t]) = 1
            /\ IF ~returnValues[t].err.nil
               THEN /\ w[t][1].error = JText(returnValues[t].err.s)
                    /\ ~Populated(w[t][1].result)
               ELSE /\ w[t][1].result = returnValues[t].res
                    /\ ~Populated(w[t][1].error)

\* C16 (as claimed): a JSON value for a scalar first argument is accepted
\* exactly when its dynamic type is the argument's type, or it is a number
\* and the argument an integer, which then gets the number converted; every
\* other value, a null included, is answered "Type mismatch parameter 1.".
C16_ScalarCoercion ==
    \A t \in Threads :
        (/\ AfterRoute(t) /\ Routed(t)
         /\ req[t].Params.array
         /\ Len(req[t].Params.elems) = Len(Declared(t))
         /\ Len(Declared(t)) >= 1
         /\ ~IsPtrType(Declared(t)[1])) =>
            LET raw == req[t].Params.elems[1]
                type == Declared(t)[1]
                same == raw.k # "null" /\ DynamicKind(raw) = type.kind
                conv == raw.k = "num" /\ type.kind = "int"
            IN  IF same \/ conv
                THEN /\ ~WroteError(t, "Type mismatch parameter 1.")
                     /\ stage[t] \in {"ok", "invoked"} =>
                           args[t][1] = [t |-> type.kind,
                                         v |-> IF conv THEN FloatToInt(raw.v) ELSE raw.v]
                ELSE /\ pc[t] = "done"
                     /\ WroteError(t, "Type mismatch parameter 1.")
                     /\ invocations[t] = 0

\* C17: whatever calls of Register and RegisterName succeeded or failed,
\* every key of the service map is a non-empty name, the name of the
\* service it maps to, and that service has a method; a receiver without an
\* eligible method is in the map under no name.
C17_RegistryInvariant ==
    \A n \in DOMAIN serviceMap :
        /\ n # <<>>
        /\ serviceMap[n].name = n
        /\ DOMAIN serviceMap[n].method # {}
        /\ DOMAIN MethodTable(ReceiverOf(serviceMap[n].rcvr)) # {}

\* C17 witness: a receiver without eligible methods was refused under a
\* free name after another registration had succeeded
C17_Witness ==
    \E t \in Threads :
        /\ pc[t] = "rdone" /\ ~regErr[t].nil
        /\ regArgs[t].rcvr = "Empty"
        /\ Resolved(regArgs[t]) # <<>>
        /\ Resolved(regArgs[t]) \notin DOMAIN serviceMap
        /\ DOMAIN serviceMap # {}

\* C18: a service is in the service map with its whole method table or not
\* at all, and its table never changes but for the counters and locks of
\* its descriptors: at every moment the table of a name is the table built
\* from the receiver the name was first bound to; the service whose table
\* register is filling is not in the map, so no dispatch, which reads a
\* table after it released the registry lock, reads the table being
\* written.
C18_AtomicPublication ==
    /\ \A n \in DOMAIN serviceMap :
          LET full == MethodTable(ReceiverOf(serviceMap[n].rcvr)) IN
          /\ n \in DOMAIN first /\ serviceMap[n].rcvr = first[n]
          /\ DOMAIN serviceMap[n].method = DOMAIN full
          /\ \A m \in DOMAIN full :
                /\ serviceMap[n].method[m].method = full[m].method
                /\ serviceMap[n].method[m].argTypes = full[m].argTypes
                /\ serviceMap[n].method[m].returnType = full[m].returnType
    /\ \A u \in Threads :
          pc[u] = "rloop" =>
              /\ mutex = u
              /\ sLocal[u].name \notin DOMAIN serviceMap
              /\ \A t \in Threads : service[t].ok => service[t].name # sLocal[u].name
    /\ \A t \in Threads : service[t].ok => service[t].name \in DOMAIN serviceMap

\* C18 witness: a dispatch that has released the registry lock is about to
\* read its service's method table while register is filling another
C18_Witness ==
    \E t, u \in Threads :
        /\ pc[t] = "route" /\ service[t].ok
        /\ pc[u] = "rloop" /\ DOMAIN sLocal[u].method # {}

\* which receiver each name of a service map is bound to
Bindings(map) == [n \in DOMAIN map |-> map[n].rcvr]

\* a call of register with these arguments succeeds if the name is free
Registrable(a) ==
    /\ Resolved(a) # <<>>
    /\ ~(TypPkgPath(ReceiverOf(a.rcvr)) /\ ~isExported(Resolved(a)) /\ ~a.useName)
    /\ DOMAIN MethodTable(ReceiverOf(a.rcvr)) # {}

\* the step in which t's call of register returns an error
ReturnsError(t) == pc[t] \in {"rbody", "rloop"} /\ pc'[t] = "rdone" /\ ~regErr'[t].nil

\* C19: the step in which a call of Register returns an error leaves the
\* service map as it is, and as it was when the call took the registry
\* lock, and sets the lock free; a call that has returned does not hold
\* the lock, so the lock is free or held by a goroutine at the map read or
\* inside register; of two calls for the same free name with receivers
\* that can be registered, one succeeds and the other fails.
C19_FailedRegister ==
    [][/\ \A t \in Threads :
             ReturnsError(t) =>
                 /\ serviceMap' = serviceMap
                 /\ Bindings(serviceMap') = Bindings(mapBefore'[t])
                 /\ mutex = t /\ mutex' = Free
       /\ \A t \in Threads :
             /\ pc'[t] \in {"rdone", "idle", "rlock"} => mutex' # t
             /\ pc'[t] = "rloop" => Bindings(serviceMap') = Bindings(mapBefore'[t])
             /\ mutex' = t => pc'[t] \in {"lookup", "rbody", "rloop"}
       /\ \A t, u \in Threads :
             (/\ t # u /\ pc'[t] = "rdone" /\ pc'[u] = "rdone"
              /\ Resolved(regArgs'[t]) = Resolved(regArgs'[u])
              /\ Registrable(regArgs'[t]) /\ Registrable(regArgs'[u])
              /\ \/ Resolved(regArgs'[t]) \notin DOMAIN mapBefore'[t]
                 \/ Resolved(regArgs'[u]) \notin DOMAIN mapBefore'[u]) =>
                 regErr'[t].nil # regErr'[u].nil
      ]_vars

\* C19 witness: two calls for the same name have returned, one with an
\* error, and the map holds the name once, bound by the other
C19_Witness ==
    \E t, u \in Threads :
        /\ t # u /\ pc[t] = "rdone" /\ pc[u] = "rdone"
        /\ Resolved(regArgs[t]) = Resolved(regArgs[u])
        /\ Registrable(regArgs[t]) /\ Registrable(regArgs[u])
        /\ regErr[t].nil /\ ~regErr[u].nil
        /\ Resolved(regArgs[t]) \notin DOMAIN mapBefore[t]
        /\ mutex = Free

====
